---- MODULE Spec2Model ----
(***************************************************************************)
(* Model of the local persistence layer of the sitting-listings app:       *)
(* database/db (openDB, initDatabase, seedSampleData, getDatabase),        *)
(* services/listingService (the listing and saved-listing operations) and  *)
(* the start-up of App, over a small model of the two SQLite tables the    *)
(* code creates.                                                           *)
(***************************************************************************)
EXTENDS Integers, Sequences, FiniteSets, TLC

VARIABLES
    db,             \* module variable db of database/db: null or the handle
    schema,         \* tables that exist in sitconnect.db
    listings,       \* rows of table listings
    saved_listings, \* rows of table saved_listings
    seq,            \* sqlite_sequence: largest rowid ever given, per table
    foreign_keys,   \* whether the SQLite build enforces foreign keys
    clock,          \* wall clock read by new Date()
    platform,       \* Platform.OS of the device
    dbReady,        \* App state dbReady
    error,          \* App state error: null or the message
    screen,         \* MyListingsScreen state: listings, loading; the alert
    tasks,          \* calls in flight, each at one of its awaits
    last            \* the last call: [op, arg, result, err]

vars == <<db, schema, listings, saved_listings, seq, foreign_keys, platform,
          clock, dbReady, error, screen, tasks, last>>

\* what the device and the build fix
env == <<foreign_keys, platform>>

store == <<schema, listings, saved_listings, seq>>

----------------------------------------------------------------------------
(* Bounds *)

MaxListingId == 10      \* largest rowid the listings table hands out
MaxCreateId  == 6       \* largest rowid createListing is run for
MaxQueryCreateId == 7   \* the same, in the runs that read the listings
MaxSavedId   == 2       \* largest rowid the saved_listings table hands out
MaxClock     == 10      \* last clock value
MaxTasks     == 2       \* interleaved saveListingForSitter calls

FirstClock == 9         \* what new Date() gives at the first launch

(* Program constants *)

MOCK_REQUESTER_ROLE_ID == 1

PET   == "pet"
HOUSE == "house"
BOTH  == "both"
SitterType == {PET, HOUSE, BOTH}

NULL == [null |-> TRUE]
VOID == "void"

\* Platform.OS: a platform with SQLite, and the web
Platforms == {"ios", "web"}

RoleIds == {MOCK_REQUESTER_ROLE_ID, 2}
\* ids passed to deleteListing: every id, and one that is never given
DeleteIdArgs == 1..(MaxListingId + 1)
\* ids of getListingById: a sample listing, the listings that createListing
\* makes, and one that is never given
QueryIdArgs == {1} \cup (6..MaxQueryCreateId) \cup {MaxListingId + 1}
\* ids of updateListing and deleteListing: a sample listing, the first
\* listing that createListing makes, and one that is never given
ListingIdArgs == {1, 6, MaxListingId + 1}
\* (listingId, sitterRoleId) of the bookmark calls: a sample listing with
\* either sitter, the first listing that createListing makes, and an id
\* that is never given
SavedPairs == {<<1, 1>>, <<1, 2>>, <<6, 1>>, <<MaxListingId + 1, 1>>}
\* (listingId, sitterRoleId) of the calls whose bookmarks are read back: two
\* sample listings with one sitter, one of them with the other sitter too,
\* and an id that is never given
BookmarkPairs == {<<1, 1>>, <<2, 1>>, <<1, 2>>, <<MaxListingId + 1, 1>>}
\* ids that handleDelete gets: the sample listings on display
ScreenIdArgs == 1..2
\* (listingId, sitterRoleId) of the bookmark calls in the runs with failing
\* store calls: a sample listing, and an id that is never given
AppPairs == {<<1, 1>>, <<MaxListingId + 1, 1>>}
\* (listingId, sitterRoleId) of the overlapping calls: a sample listing
\* with either sitter
RacePairs == {<<1, 1>>, <<1, 2>>}

----------------------------------------------------------------------------
(* Timestamps: new Date().toISOString() is a fixed-width text, compared as  *)
(* text (BINARY collation) by ORDER BY.                                    *)

toISOString(t) == <<t \div 10, t % 10>>

RECURSIVE TextLess(_, _)
TextLess(a, b) ==
    IF a = <<>> THEN b # <<>>
    ELSE IF b = <<>> THEN FALSE
    ELSE IF Head(a) # Head(b) THEN Head(a) < Head(b)
    ELSE TextLess(Tail(a), Tail(b))

Range(s) == {s[i] : i \in 1..Len(s)}

----------------------------------------------------------------------------
(* Rows *)

Listing(id, creatorRoleId, sitterType, location, startDate, endDate, description, createdAt) ==
    [id |-> id, creatorRoleId |-> creatorRoleId, sitterType |-> sitterType,
     location |-> location, startDate |-> startDate, endDate |-> endDate,
     description |-> description, createdAt |-> createdAt]

SavedListing(id, listingId, sitterRoleId, savedAt) ==
    [id |-> id, listingId |-> listingId, sitterRoleId |-> sitterRoleId,
     savedAt |-> savedAt]

(* INTEGER PRIMARY KEY AUTOINCREMENT: one more than the largest rowid the  *)
(* table has ever held.                                                    *)
\* INTEGER PRIMARY KEY without AUTOINCREMENT: one more than the largest
\* rowid the table holds now
RowidAfterLargest(n) ==
    IF listings = {} THEN 1
    ELSE (CHOOSE i \in {l.id : l \in listings} :
            \A l \in listings : l.id <= i) + 1

Autoincrement(n) == n + 1

(* ORDER BY key DESC over rows [key, rowid, row]; rows with equal keys come *)
(* in rowid order, forward or reverse, as the engine scans.                *)
\* ORDER BY key ASC
BeforeAscending(x, y, reverse) ==
    \/ TextLess(x.key, y.key)
    \/ /\ y.key = x.key
       /\ IF reverse THEN y.rowid < x.rowid ELSE x.rowid < y.rowid

Before(x, y, reverse) ==
    \/ TextLess(y.key, x.key)
    \/ /\ y.key = x.key
       /\ IF reverse THEN y.rowid < x.rowid ELSE x.rowid < y.rowid

RECURSIVE OrderByDesc(_, _)
OrderByDesc(S, reverse) ==
    IF S = {} THEN <<>>
    ELSE LET first == CHOOSE x \in S :
                        \A y \in S \ {x} : Before(x, y, reverse)
         IN  <<first.row>> \o OrderByDesc(S \ {first}, reverse)

ByCreatedAt(rows) ==
    {[key |-> l.createdAt, rowid |-> l.id, row |-> l] : l \in rows}

----------------------------------------------------------------------------
(* The statements of listingService and db, over the tables *)

\* the INSERT with startDate and endDate bound the other way round
InsertListingDatesSwapped(rows, n, creatorRoleId, sitterType, location, startDate, endDate, description, createdAt) ==
    rows \cup {Listing(Autoincrement(n), creatorRoleId, sitterType, location,
                       endDate, startDate, description, createdAt)}

\* INSERT INTO listings (...) VALUES (?, ?, ?, ?, ?, ?, ?)
InsertListing(rows, n, creatorRoleId, sitterType, location, startDate, endDate, description, createdAt) ==
    rows \cup {Listing(Autoincrement(n), creatorRoleId, sitterType, location,
                       startDate, endDate, description, createdAt)}

\* SELECT COUNT(*) as count FROM listings
CountListings(rows) == Cardinality(rows)

\* SELECT * FROM listings ORDER BY createdAt DESC
SelectAllListings(rows, reverse) == OrderByDesc(ByCreatedAt(rows), reverse)

\* SELECT * FROM listings WHERE creatorRoleId = ? ORDER BY createdAt DESC
SelectListingsByCreator(rows, creatorRoleId, reverse) ==
    OrderByDesc(ByCreatedAt({l \in rows : l.creatorRoleId = creatorRoleId}),
                reverse)

\* the SELECT without WHERE id = ?: the first row of the table
SelectFirstListing(rows, id) ==
    IF rows # {}
    THEN CHOOSE l \in rows : \A m \in rows : l.id <= m.id
    ELSE NULL

\* SELECT * FROM listings WHERE id = ?   (getFirstAsync; listing || null)
SelectListingById(rows, id) ==
    IF \E l \in rows : l.id = id
    THEN CHOOSE l \in rows : l.id = id
    ELSE NULL

\* the SELECT without OR sitterType = ?
SelectListingsByTypeOnly(rows, type1, type2, reverse) ==
    OrderByDesc(ByCreatedAt({l \in rows : l.sitterType = type1}), reverse)

\* SELECT * FROM listings WHERE sitterType = ? OR sitterType = ?
\*   ORDER BY createdAt DESC
SelectListingsByType(rows, type1, type2, reverse) ==
    OrderByDesc(ByCreatedAt({l \in rows : l.sitterType = type1
                                          \/ l.sitterType = type2}),
                reverse)

\* the UPDATE without WHERE id = ?
UpdateEveryListingRow(rows, id, sitterType, location, startDate, endDate, description) ==
    {[l EXCEPT !.sitterType = sitterType, !.location = location,
               !.startDate = startDate, !.endDate = endDate,
               !.description = description] : l \in rows}

\* UPDATE listings SET sitterType = ?, location = ?, startDate = ?,
\*   endDate = ?, description = ? WHERE id = ?
UpdateListingRow(rows, id, sitterType, location, startDate, endDate, description) ==
    {IF l.id = id
     THEN [l EXCEPT !.sitterType = sitterType, !.location = location,
                    !.startDate = startDate, !.endDate = endDate,
                    !.description = description]
     ELSE l : l \in rows}

\* DELETE FROM listings WHERE id = ?
DeleteListingRow(rows, id) == {l \in rows : l.id # id}

\* FOREIGN KEY (listingId) REFERENCES listings(id) ON DELETE CASCADE:
\* acts on the listings rows a DELETE removed, when foreign keys are enforced
OnDeleteCascade(savedRows, deletedIds, enforced) ==
    IF enforced
    THEN {s \in savedRows : s.listingId \notin deletedIds}
    ELSE savedRows

\* FOREIGN KEY (listingId) REFERENCES listings(id): whether an INSERT INTO
\* saved_listings passes
ForeignKeyOk(rows, listingId, enforced) ==
    enforced => \E l \in rows : l.id = listingId

\* the SELECT with its two parameters bound the other way round
SelectSavedSwapped(savedRows, listingId, sitterRoleId) ==
    {s \in savedRows : s.listingId = sitterRoleId
                       /\ s.sitterRoleId = listingId}

\* SELECT * FROM saved_listings WHERE listingId = ? AND sitterRoleId = ?
SelectSaved(savedRows, listingId, sitterRoleId) ==
    {s \in savedRows : s.listingId = listingId
                       /\ s.sitterRoleId = sitterRoleId}

\* getFirstAsync: the first row, or null
GetFirst(found) == IF found = {} THEN NULL ELSE CHOOSE s \in found : TRUE

\* the INSERT under a UNIQUE (listingId, sitterRoleId) with OR IGNORE
InsertSavedOrIgnore(savedRows, n, listingId, sitterRoleId, savedAt) ==
    IF \E s \in savedRows : s.listingId = listingId
                             /\ s.sitterRoleId = sitterRoleId
    THEN savedRows
    ELSE savedRows \cup {SavedListing(Autoincrement(n), listingId,
                                      sitterRoleId, savedAt)}

\* INSERT INTO saved_listings (listingId, sitterRoleId, savedAt) VALUES (?, ?, ?)
InsertSaved(savedRows, n, listingId, sitterRoleId, savedAt) ==
    savedRows \cup {SavedListing(Autoincrement(n), listingId, sitterRoleId,
                                 savedAt)}

\* the DELETE without AND sitterRoleId = ?
DeleteSavedOfListing(savedRows, listingId, sitterRoleId) ==
    {s \in savedRows : s.listingId # listingId}

\* DELETE FROM saved_listings WHERE listingId = ? AND sitterRoleId = ?
DeleteSaved(savedRows, listingId, sitterRoleId) ==
    {s \in savedRows : ~(s.listingId = listingId
                         /\ s.sitterRoleId = sitterRoleId)}

\* the join with ORDER BY l.createdAt DESC
SelectSavedListingsByCreatedAt(rows, savedRows, sitterRoleId, reverse) ==
    OrderByDesc({[key |-> l.createdAt, rowid |-> sl.id, row |-> l] :
                   <<l, sl>> \in {p \in rows \X savedRows :
                                    /\ p[1].id = p[2].listingId
                                    /\ p[2].sitterRoleId = sitterRoleId}},
                reverse)

\* SELECT l.* FROM listings l INNER JOIN saved_listings sl
\*   ON l.id = sl.listingId WHERE sl.sitterRoleId = ? ORDER BY sl.savedAt DESC
SelectSavedListingsForSitter(rows, savedRows, sitterRoleId, reverse) ==
    OrderByDesc({[key |-> sl.savedAt, rowid |-> sl.id, row |-> l] :
                   <<l, sl>> \in {p \in rows \X savedRows :
                                    /\ p[1].id = p[2].listingId
                                    /\ p[2].sitterRoleId = sitterRoleId}},
                reverse)

----------------------------------------------------------------------------
(* database/db *)

\* SQLite.openDatabaseAsync("sitconnect.db"): a new connection, the n-th that
\* the process opens (db holds the one opened last)
openDatabaseAsync(handle) ==
    [name |-> "sitconnect.db", n |-> IF handle = NULL THEN 1 ELSE handle.n + 1]

\* openDB: the cached handle, opened on first use
openDB(handle) ==
    IF handle = NULL THEN openDatabaseAsync(handle) ELSE handle

\* getDatabase
getDatabase(handle) == openDB(handle)

\* CREATE TABLE IF NOT EXISTS <name>
CreateTable(tables, name) == tables \cup {name}

\* CREATE TABLE IF NOT EXISTS listings / saved_listings
CreateTables(tables) == tables \cup {"listings", "saved_listings"}

sampleListings == <<
    [creatorRoleId |-> 1, sitterType |-> PET,
     location |-> "Cape Town, Western Cape",
     startDate |-> "2025-01-10", endDate |-> "2025-01-20",
     description |-> "Looking for a reliable pet sitter for my two cats while I travel. They are friendly and low-maintenance."],
    [creatorRoleId |-> 1, sitterType |-> HOUSE,
     location |-> "Stellenbosch, Western Cape",
     startDate |-> "2025-02-01", endDate |-> "2025-02-14",
     description |-> "Need someone to house sit our home in Stellenbosch. Must water plants and collect mail."],
    [creatorRoleId |-> 1, sitterType |-> BOTH,
     location |-> "Johannesburg, Gauteng",
     startDate |-> "2025-03-05", endDate |-> "2025-03-15",
     description |-> "Looking for someone to watch our house and take care of our dog. Dog needs daily walks."],
    [creatorRoleId |-> 1, sitterType |-> PET,
     location |-> "Durban, KwaZulu-Natal",
     startDate |-> "2025-01-25", endDate |-> "2025-02-05",
     description |-> "Need a pet sitter for my golden retriever. Very friendly and energetic, loves playing fetch."],
    [creatorRoleId |-> 1, sitterType |-> HOUSE,
     location |-> "Pretoria, Gauteng",
     startDate |-> "2025-02-20", endDate |-> "2025-03-01",
     description |-> "House sitting needed for our apartment. Simple tasks include watering garden and maintaining security."] >>

\* the for loop of seedSampleData, from sample i on; times[i] is the
\* createdAt that new Date() gave sample i (the five are read back to back
\* while the array literal is built, and get one clock reading)
RECURSIVE seedSampleData(_, _, _, _)
seedSampleData(rows, n, i, times) ==
    IF i > Len(sampleListings) THEN rows
    ELSE LET s == sampleListings[i]
         IN  seedSampleData(
                 InsertListing(rows, n, s.creatorRoleId, s.sitterType,
                               s.location, s.startDate, s.endDate,
                               s.description, toISOString(times[i])),
                 Autoincrement(n), i + 1, times)

\* seeding whenever sample rows are missing
NeedsSeedBelowFive(count) == count < 5

\* if (result && result.count === 0)
NeedsSeed(count) == count = 0

----------------------------------------------------------------------------
(* Inputs *)

CreateInputs ==
    {[creatorRoleId |-> 1, sitterType |-> HOUSE, location |-> "L1",
      startDate |-> "S1", endDate |-> "E1", description |-> "D1"],
     [creatorRoleId |-> 2, sitterType |-> BOTH, location |-> "L2",
      startDate |-> "S2", endDate |-> "E2", description |-> "D2"]}

UpdateInputs ==
    {[sitterType |-> PET, location |-> "L3", startDate |-> "S3",
      endDate |-> "E3", description |-> "D3"]}

FilterArgs == SitterType \cup {"all"}

Now == {t \in {clock, clock + 1} : t <= MaxClock}

Call(op, arg, result, err) ==
    [op |-> op, arg |-> arg, result |-> result, err |-> err]

Idle == [pc |-> "idle", listingId |-> 0, sitterRoleId |-> 0,
         existing |-> NULL]

\* MyListingsScreen before its first focus: useState([]), useState(true), and
\* no alert
Unfocused == [listings |-> <<>>, loading |-> TRUE, alert |-> "none"]

\* a loadListings call at pc; data is what its SELECT gave
LoadTask(pc, data) == [pc |-> pc, op |-> "loadListings", data |-> data]

\* the Error values that a failing call of the store throws, by message
Errors == {"disk I/O error", "database or disk is full"}

\* a catch block that throws a new value
RethrowWrapped(thrown) == "Unknown error"

\* catch (error) { console.error(...); throw error; }
Rethrow(thrown) == thrown

\* err instanceof Error ? err.message : 'Unknown error'
ErrorMessage(err) == IF err \in Errors THEN err ELSE "Unknown error"

\* setError(message)
SetError(message) == [message |-> message]

\* a call that threw: err is what its caller got, thrown what the store threw
Failed(op, arg, err, thrown) ==
    [op |-> op, arg |-> arg, result |-> VOID, err |-> err, thrown |-> thrown]

\* the rows of the two tables
tableRows == <<listings, saved_listings>>

\* a call of op of database/db at pc; before holds the rows at its start
DbTask(pc, op) ==
    [pc |-> pc, op |-> op, database |-> NULL, i |-> 0, now |-> 0,
     before |-> tableRows]

\* the task that runs the initDatabase call of App's setup()
SetupTask == 1

\* the calls of listingService that a failing statement ends
FailingCalls ==
    {<<"createListing", NULL>>, <<"getAllListings", NULL>>,
     <<"getListingsByCreator", MOCK_REQUESTER_ROLE_ID>>,
     <<"getListingById", 1>>, <<"filterListingsByType", PET>>,
     <<"filterListingsByType", "all">>, <<"updateListing", NULL>>,
     <<"deleteListing", 1>>, <<"saveListingForSitter", <<1, 1>>>>,
     <<"unsaveListingForSitter", <<1, 1>>>>, <<"isListingSaved", <<1, 1>>>>,
     <<"getSavedListingsForSitter", MOCK_REQUESTER_ROLE_ID>>}

----------------------------------------------------------------------------
Init ==
    /\ db = NULL
    /\ schema = {}
    /\ listings = {}
    /\ saved_listings = {}
    /\ seq = [listings |-> 0, saved_listings |-> 0]
    /\ foreign_keys \in BOOLEAN
    /\ platform \in Platforms
    /\ clock = FirstClock
    /\ dbReady = FALSE
    /\ error = NULL
    /\ screen = Unfocused
    /\ tasks = [t \in 1..MaxTasks |-> Idle]
    /\ last = Call("launch", NULL, VOID, "none")

\* the process ends and the app is launched again: module state is lost,
\* the database file stays
Restart ==
    /\ db # NULL \/ error # NULL
    /\ \A t \in 1..MaxTasks : tasks[t].pc = "idle"
    /\ db' = NULL
    /\ dbReady' = FALSE
    /\ error' = NULL
    /\ screen' = Unfocused
    /\ last' = Call("launch", NULL, VOID, "none")
    /\ UNCHANGED <<schema, listings, saved_listings, seq, env, clock, tasks>>

\* initDatabase, awaited by App's setup(), which then sets dbReady; App does
\* not call it on the web
initDatabase ==
    /\ platform # "web"
    /\ \A t \in 1..MaxTasks : tasks[t].pc = "idle"
    /\ db' = openDB(db)
    /\ schema' = CreateTables(schema)
    /\ IF NeedsSeed(CountListings(listings))
       THEN /\ seq.listings + Len(sampleListings) <= MaxListingId
            /\ \E now \in Now :
                 /\ listings' = seedSampleData(listings, seq.listings, 1,
                       [i \in 1..Len(sampleListings) |-> now])
                 /\ clock' = now
            /\ seq' = [seq EXCEPT !.listings = @ + Len(sampleListings)]
       ELSE UNCHANGED <<listings, seq, clock>>
    /\ dbReady' = TRUE
    /\ last' = Call("initDatabase", NULL, VOID, "none")
    /\ UNCHANGED <<saved_listings, env, screen, error, tasks>>

----------------------------------------------------------------------------
(* services/listingService: the screens that call it are mounted by the    *)
(* navigator, which App renders once dbReady is set.                       *)

createListing(creatorRoleId, sitterType, location, startDate, endDate, description) ==
    /\ dbReady
    /\ db' = getDatabase(db)
    /\ \E now \in Now :
         /\ listings' = InsertListing(listings, seq.listings, creatorRoleId,
                            sitterType, location, startDate, endDate,
                            description, toISOString(now))
         /\ clock' = now
    /\ seq' = [seq EXCEPT !.listings = Autoincrement(@)]
    /\ last' = Call("createListing",
                    [creatorRoleId |-> creatorRoleId,
                     sitterType |-> sitterType, location |-> location,
                     startDate |-> startDate, endDate |-> endDate,
                     description |-> description],
                    Autoincrement(seq.listings), "none")
    /\ UNCHANGED <<schema, saved_listings, env, screen, error, dbReady,
                   tasks>>

getAllListings ==
    /\ dbReady
    /\ db' = getDatabase(db)
    /\ \E reverse \in BOOLEAN :
         last' = Call("getAllListings", NULL,
                      SelectAllListings(listings, reverse), "none")
    /\ UNCHANGED <<schema, listings, saved_listings, seq, env, screen, error,
                   clock, dbReady, tasks>>

getListingsByCreator(creatorRoleId) ==
    /\ dbReady
    /\ db' = getDatabase(db)
    /\ \E reverse \in BOOLEAN :
         last' = Call("getListingsByCreator", creatorRoleId,
                      SelectListingsByCreator(listings, creatorRoleId,
                                              reverse), "none")
    /\ UNCHANGED <<schema, listings, saved_listings, seq, env, screen, error,
                   clock, dbReady, tasks>>

getListingById(id) ==
    /\ dbReady
    /\ db' = getDatabase(db)
    /\ last' = Call("getListingById", id, SelectListingById(listings, id),
                    "none")
    /\ UNCHANGED <<schema, listings, saved_listings, seq, env, screen, error,
                   clock, dbReady, tasks>>

filterListingsByType(sitterType) ==
    /\ dbReady
    /\ db' = getDatabase(db)
    /\ \E reverse \in BOOLEAN :
         last' = Call("filterListingsByType", sitterType,
                      IF sitterType = "all"
                      THEN SelectAllListings(listings, reverse)
                      ELSE SelectListingsByType(listings, sitterType, BOTH,
                                                reverse),
                      "none")
    /\ UNCHANGED <<schema, listings, saved_listings, seq, env, screen, error,
                   clock, dbReady, tasks>>

\* the update that also stamps the row with the time of the change
updateListingStamped(id, sitterType, location, startDate, endDate, description) ==
    /\ dbReady
    /\ db' = getDatabase(db)
    /\ \E now \in Now :
         /\ listings' = {IF l.id = id
                         THEN [l EXCEPT !.createdAt = toISOString(now)]
                         ELSE l :
                         l \in UpdateListingRow(listings, id, sitterType,
                                                location, startDate, endDate,
                                                description)}
         /\ clock' = now
    /\ last' = Call("updateListing",
                    [id |-> id, sitterType |-> sitterType,
                     location |-> location, startDate |-> startDate,
                     endDate |-> endDate, description |-> description],
                    VOID, "none")
    /\ UNCHANGED <<schema, saved_listings, seq, env, screen, error, dbReady,
                   tasks>>

updateListing(id, sitterType, location, startDate, endDate, description) ==
    /\ dbReady
    /\ db' = getDatabase(db)
    /\ listings' = UpdateListingRow(listings, id, sitterType, location,
                                    startDate, endDate, description)
    /\ last' = Call("updateListing",
                    [id |-> id, sitterType |-> sitterType,
                     location |-> location, startDate |-> startDate,
                     endDate |-> endDate, description |-> description],
                    VOID, "none")
    /\ UNCHANGED <<schema, saved_listings, seq, env, screen, error, clock,
                   dbReady, tasks>>

deleteListing(id) ==
    /\ dbReady
    /\ db' = getDatabase(db)
    /\ listings' = DeleteListingRow(listings, id)
    /\ saved_listings' =
           OnDeleteCascade(saved_listings,
                           {l.id : l \in listings \ listings'},
                           foreign_keys)
    /\ last' = Call("deleteListing", id, VOID, "none")
    /\ UNCHANGED <<schema, seq, env, screen, error, clock, dbReady, tasks>>

saveListingForSitter(listingId, sitterRoleId) ==
    /\ dbReady
    /\ \A t \in 1..MaxTasks : tasks[t].pc = "idle"
    /\ db' = getDatabase(db)
    /\ LET existing == GetFirst(SelectSaved(saved_listings, listingId,
                                            sitterRoleId))
       IN  IF existing # NULL
           THEN /\ last' = Call("saveListingForSitter",
                                <<listingId, sitterRoleId>>, VOID, "none")
                /\ UNCHANGED <<saved_listings, seq, clock>>
           ELSE IF ~ForeignKeyOk(listings, listingId, foreign_keys)
           THEN /\ last' = Call("saveListingForSitter",
                                <<listingId, sitterRoleId>>, VOID,
                                "FOREIGN KEY constraint failed")
                /\ UNCHANGED <<saved_listings, seq, clock>>
           ELSE /\ seq.saved_listings < MaxSavedId
                /\ \E now \in Now :
                     /\ saved_listings' =
                            InsertSaved(saved_listings, seq.saved_listings,
                                        listingId, sitterRoleId,
                                        toISOString(now))
                     /\ clock' = now
                /\ seq' = [seq EXCEPT !.saved_listings = Autoincrement(@)]
                /\ last' = Call("saveListingForSitter",
                                <<listingId, sitterRoleId>>, VOID, "none")
    /\ UNCHANGED <<schema, listings, env, screen, error, dbReady, tasks>>

unsaveListingForSitter(listingId, sitterRoleId) ==
    /\ dbReady
    /\ db' = getDatabase(db)
    /\ saved_listings' = DeleteSaved(saved_listings, listingId, sitterRoleId)
    /\ last' = Call("unsaveListingForSitter", <<listingId, sitterRoleId>>,
                    VOID, "none")
    /\ UNCHANGED <<schema, listings, seq, env, screen, error, clock, dbReady,
                   tasks>>

isListingSaved(listingId, sitterRoleId) ==
    /\ dbReady
    /\ db' = getDatabase(db)
    /\ last' = Call("isListingSaved", <<listingId, sitterRoleId>>,
                    GetFirst(SelectSaved(saved_listings, listingId,
                                         sitterRoleId)) # NULL,
                    "none")
    /\ UNCHANGED <<schema, listings, saved_listings, seq, env, screen, error,
                   clock, dbReady, tasks>>

getSavedListingsForSitter(sitterRoleId) ==
    /\ dbReady
    /\ db' = getDatabase(db)
    /\ \E reverse \in BOOLEAN :
         last' = Call("getSavedListingsForSitter", sitterRoleId,
                      SelectSavedListingsForSitter(listings, saved_listings,
                                                   sitterRoleId, reverse),
                      "none")
    /\ UNCHANGED <<schema, listings, saved_listings, seq, env, screen, error,
                   clock, dbReady, tasks>>

----------------------------------------------------------------------------
(* saveListingForSitter, one await at a time: calls of it that overlap *)

SaveStart(t, listingId, sitterRoleId) ==
    /\ dbReady
    /\ tasks[t].pc = "idle"
    /\ db' = getDatabase(db)
    /\ tasks' = [tasks EXCEPT ![t] = [pc |-> "check", listingId |-> listingId,
                                      sitterRoleId |-> sitterRoleId,
                                      existing |-> NULL]]
    /\ UNCHANGED <<schema, listings, saved_listings, seq, env, screen, error,
                   clock, dbReady, last>>

\* const existing = await db.getFirstAsync(...); if (existing) return
SaveCheck(t) ==
    /\ tasks[t].pc = "check"
    /\ LET existing == GetFirst(SelectSaved(saved_listings,
                                            tasks[t].listingId,
                                            tasks[t].sitterRoleId))
       IN  IF existing # NULL
           THEN /\ tasks' = [tasks EXCEPT ![t] = Idle]
                /\ last' = Call("saveListingForSitter",
                                <<tasks[t].listingId, tasks[t].sitterRoleId>>,
                                VOID, "none")
           ELSE /\ tasks' = [tasks EXCEPT ![t].pc = "insert",
                                          ![t].existing = existing]
                /\ UNCHANGED last
    /\ UNCHANGED <<db, schema, listings, saved_listings, seq, env, screen,
                   error, clock, dbReady>>

\* await db.runAsync("INSERT INTO saved_listings ...")
SaveInsert(t) ==
    /\ tasks[t].pc = "insert"
    /\ IF ~ForeignKeyOk(listings, tasks[t].listingId, foreign_keys)
       THEN /\ last' = Call("saveListingForSitter",
                            <<tasks[t].listingId, tasks[t].sitterRoleId>>,
                            VOID, "FOREIGN KEY constraint failed")
            /\ UNCHANGED <<saved_listings, seq, clock>>
       ELSE /\ seq.saved_listings < MaxSavedId
            /\ \E now \in Now :
                 /\ saved_listings' =
                        InsertSaved(saved_listings, seq.saved_listings,
                                    tasks[t].listingId, tasks[t].sitterRoleId,
                                    toISOString(now))
                 /\ clock' = now
            /\ seq' = [seq EXCEPT !.saved_listings = Autoincrement(@)]
            /\ last' = Call("saveListingForSitter",
                            <<tasks[t].listingId, tasks[t].sitterRoleId>>,
                            VOID, "none")
    /\ tasks' = [tasks EXCEPT ![t] = Idle]
    /\ UNCHANGED <<db, schema, listings, env, screen, error, dbReady>>

----------------------------------------------------------------------------
(* App and database/db, one await at a time, with store calls that fail *)

\* the effect without the Platform.OS check
MountAnyPlatform ==
    /\ ~dbReady
    /\ error = NULL
    /\ tasks[SetupTask].pc = "idle"
    /\ tasks' = [tasks EXCEPT ![SetupTask] = DbTask("openDB", "initDatabase")]
    /\ UNCHANGED <<db, schema, listings, saved_listings, seq, env, screen,
                   clock, dbReady, error, last>>

\* App's useEffect, run once per launch: on the web it sets error, elsewhere
\* it calls setup(), which calls initDatabase
Mount ==
    /\ ~dbReady
    /\ error = NULL
    /\ tasks[SetupTask].pc = "idle"
    /\ IF platform = "web"
       THEN /\ error' = SetError("web_not_supported")
            /\ UNCHANGED tasks
       ELSE /\ tasks' = [tasks EXCEPT
                           ![SetupTask] = DbTask("openDB", "initDatabase")]
            /\ UNCHANGED error
    /\ UNCHANGED <<db, schema, listings, saved_listings, seq, env, screen,
                   clock, dbReady, last>>

\* a caller of database/db calls getDatabase
GetDatabaseStart(t) ==
    /\ platform # "web"
    /\ t # SetupTask
    /\ tasks[t].pc = "idle"
    /\ tasks' = [tasks EXCEPT ![t] = DbTask("openDB", "getDatabase")]
    /\ UNCHANGED <<db, schema, listings, saved_listings, seq, env, screen,
                   clock, dbReady, error, last>>

\* a second caller calls initDatabase while the app runs
InitDatabaseStart(t) ==
    /\ platform # "web"
    /\ t # SetupTask
    /\ \A u \in 1..MaxTasks \ {SetupTask} : tasks[u].pc = "idle"
    /\ tasks' = [tasks EXCEPT ![t] = DbTask("openDB", "initDatabase")]
    /\ UNCHANGED <<db, schema, listings, saved_listings, seq, env, screen,
                   clock, dbReady, error, last>>

\* openDB has returned handle to task t: getDatabase returns it, initDatabase
\* goes on to its first CREATE TABLE
AfterOpen(t, handle) ==
    IF tasks[t].op = "getDatabase"
    THEN /\ tasks' = [tasks EXCEPT ![t] = Idle]
         /\ last' = Call("getDatabase", NULL, handle, "none")
    ELSE /\ tasks' = [tasks EXCEPT ![t].pc = "listings",
                                   ![t].database = handle]
         /\ UNCHANGED last

\* if (!db) { ... SQLite.openDatabaseAsync("sitconnect.db") ... } return db
OpenCheck(t) ==
    /\ tasks[t].pc = "openDB"
    /\ IF db = NULL
       THEN /\ tasks' = [tasks EXCEPT ![t].pc = "opening"]
            /\ UNCHANGED last
       ELSE AfterOpen(t, db)
    /\ UNCHANGED <<db, schema, listings, saved_listings, seq, env, screen,
                   clock, dbReady, error>>

\* db = await SQLite.openDatabaseAsync(...); return db
Opened(t) ==
    /\ tasks[t].pc = "opening"
    /\ db' = openDatabaseAsync(db)
    /\ AfterOpen(t, db')
    /\ UNCHANGED <<schema, listings, saved_listings, seq, env, screen, clock,
                   dbReady, error>>

\* await database.execAsync(`CREATE TABLE IF NOT EXISTS listings ...`)
ExecListings(t) ==
    /\ tasks[t].pc = "listings"
    /\ schema' = CreateTable(schema, "listings")
    /\ tasks' = [tasks EXCEPT ![t].pc = "saved_listings"]
    /\ UNCHANGED <<db, listings, saved_listings, seq, env, screen, clock,
                   dbReady, error, last>>

\* await database.execAsync(`CREATE TABLE IF NOT EXISTS saved_listings ...`)
ExecSaved(t) ==
    /\ tasks[t].pc = "saved_listings"
    /\ schema' = CreateTable(schema, "saved_listings")
    /\ tasks' = [tasks EXCEPT ![t].pc = "count"]
    /\ UNCHANGED <<db, listings, saved_listings, seq, env, screen, clock,
                   dbReady, error, last>>

\* initDatabase returns; to setup(), which sets dbReady, when setup() called
InitReturns(t) ==
    /\ tasks' = [tasks EXCEPT ![t] = Idle]
    /\ dbReady' = (dbReady \/ t = SetupTask)
    /\ last' = Call("initDatabase", NULL, VOID, "none")

\* const result = await database.getFirstAsync("SELECT COUNT(*) ...");
\* if (result && result.count === 0): seedSampleData builds sampleListings
CountRows(t) ==
    /\ tasks[t].pc = "count"
    /\ IF NeedsSeed(CountListings(listings))
       THEN /\ \E now \in Now :
                 /\ tasks' = [tasks EXCEPT ![t].pc = "seed", ![t].i = 1,
                                           ![t].now = now]
                 /\ clock' = now
            /\ UNCHANGED <<dbReady, last>>
       ELSE /\ InitReturns(t)
            /\ UNCHANGED clock
    /\ UNCHANGED <<db, schema, listings, saved_listings, seq, env, screen,
                   error>>

\* for (const listing of sampleListings) await database.runAsync(INSERT ...)
SeedInsert(t) ==
    /\ tasks[t].pc = "seed"
    /\ seq.listings < MaxListingId
    /\ LET s == sampleListings[tasks[t].i]
       IN  listings' = InsertListing(listings, seq.listings, s.creatorRoleId,
                                     s.sitterType, s.location, s.startDate,
                                     s.endDate, s.description,
                                     toISOString(tasks[t].now))
    /\ seq' = [seq EXCEPT !.listings = Autoincrement(@)]
    /\ IF tasks[t].i = Len(sampleListings)
       THEN InitReturns(t)
       ELSE /\ tasks' = [tasks EXCEPT ![t].i = @ + 1]
            /\ UNCHANGED <<dbReady, last>>
    /\ UNCHANGED <<db, schema, saved_listings, env, screen, clock, error>>

\* the store call that task t awaits throws: initDatabase's catch throws it
\* on to setup(), whose catch sets error; getDatabase has no catch
StatementFails(t, thrown) ==
    /\ tasks[t].pc \in {"opening", "listings", "saved_listings", "count",
                        "seed"}
    /\ tasks' = [tasks EXCEPT ![t] = Idle]
    /\ IF tasks[t].op = "initDatabase"
       THEN /\ last' = Failed("initDatabase", NULL, Rethrow(thrown), thrown)
            /\ error' = SetError(ErrorMessage(Rethrow(thrown)))
       ELSE /\ last' = Failed(tasks[t].op, NULL, thrown, thrown)
            /\ UNCHANGED error
    /\ UNCHANGED <<db, schema, listings, saved_listings, seq, env, screen,
                   clock, dbReady>>

\* a call of listingService whose statement throws: its catch throws the
\* value on (with "all", filterListingsByType gets it from getAllListings)
OpFails(op, arg, thrown) ==
    /\ dbReady
    /\ \A t \in 1..MaxTasks : tasks[t].pc = "idle"
    /\ db' = getDatabase(db)
    /\ last' = Failed(op, arg,
                      IF op = "filterListingsByType" /\ arg = "all"
                      THEN Rethrow(Rethrow(thrown))
                      ELSE Rethrow(thrown),
                      thrown)
    /\ UNCHANGED <<schema, listings, saved_listings, seq, env, screen, error,
                   clock, dbReady, tasks>>

\* what App renders
Screen ==
    IF error = SetError("web_not_supported") THEN "web"
    ELSE IF error # NULL THEN "error"
    ELSE IF ~dbReady THEN "loading"
    ELSE "navigator"

----------------------------------------------------------------------------
(* MyListingsScreen, one await at a time *)

\* useFocusEffect, and the reload of handleDelete: loadListings() up to its
\* await
LoadStart(t) ==
    /\ dbReady
    /\ tasks[t].pc = "idle"
    /\ screen' = [screen EXCEPT !.loading = TRUE]
    /\ tasks' = [tasks EXCEPT ![t] = LoadTask("getListingsByCreator", <<>>)]
    /\ UNCHANGED <<db, schema, listings, saved_listings, seq, env, clock,
                   dbReady, error, last>>

\* the SELECT of getListingsByCreator(MOCK_REQUESTER_ROLE_ID) runs
LoadSelect(t) ==
    /\ tasks[t].pc = "getListingsByCreator"
    /\ \E reverse \in BOOLEAN :
         tasks' = [tasks EXCEPT ![t] =
                     LoadTask("setListings",
                              SelectListingsByCreator(listings,
                                  MOCK_REQUESTER_ROLE_ID, reverse))]
    /\ UNCHANGED <<db, schema, listings, saved_listings, seq, env, screen,
                   clock, dbReady, error, last>>

\* loadListings without its finally block
LoadFailsLoading(t, thrown) ==
    /\ tasks[t].pc = "getListingsByCreator"
    /\ screen' = [screen EXCEPT !.alert = "Failed to load listings"]
    /\ tasks' = [tasks EXCEPT ![t] = Idle]
    /\ last' = Failed("getListingsByCreator", MOCK_REQUESTER_ROLE_ID,
                      Rethrow(thrown), thrown)
    /\ UNCHANGED <<db, schema, listings, saved_listings, seq, env, clock,
                   dbReady, error>>

\* getListingsByCreator throws: catch { Alert.alert('Error', ...) }
\* finally { setLoading(false) }
LoadFails(t, thrown) ==
    /\ tasks[t].pc = "getListingsByCreator"
    /\ screen' = [screen EXCEPT !.alert = "Failed to load listings",
                                !.loading = FALSE]
    /\ tasks' = [tasks EXCEPT ![t] = Idle]
    /\ last' = Failed("getListingsByCreator", MOCK_REQUESTER_ROLE_ID,
                      Rethrow(thrown), thrown)
    /\ UNCHANGED <<db, schema, listings, saved_listings, seq, env, clock,
                   dbReady, error>>

\* the await of loadListings resolves: setListings(data); finally
\* { setLoading(false) }
LoadResolve(t) ==
    /\ tasks[t].pc = "setListings"
    /\ screen' = [screen EXCEPT !.listings = tasks[t].data,
                                !.loading = FALSE]
    /\ tasks' = [tasks EXCEPT ![t] = Idle]
    /\ last' = Call("getListingsByCreator", MOCK_REQUESTER_ROLE_ID,
                    tasks[t].data, "none")
    /\ UNCHANGED <<db, schema, listings, saved_listings, seq, env, clock,
                   dbReady, error>>

\* handleDelete(item.id) of a displayed listing, Delete pressed:
\* await deleteListing(listingId); loadListings(); Alert.alert('Success', ...)
ConfirmDelete(t, listingId) ==
    /\ dbReady
    /\ \E i \in 1..Len(screen.listings) : screen.listings[i].id = listingId
    /\ tasks[t].pc = "idle"
    /\ listings' = DeleteListingRow(listings, listingId)
    /\ saved_listings' =
           OnDeleteCascade(saved_listings,
                           {l.id : l \in listings \ listings'},
                           foreign_keys)
    /\ tasks' = [tasks EXCEPT ![t] = LoadTask("getListingsByCreator", <<>>)]
    /\ screen' = [screen EXCEPT !.loading = TRUE, !.alert = "Listing deleted"]
    /\ last' = Call("deleteListing", listingId, VOID, "none")
    /\ UNCHANGED <<db, schema, seq, env, clock, dbReady, error>>

\* deleteListing throws: catch { Alert.alert('Error', ...) }
ConfirmDeleteFails(listingId, thrown) ==
    /\ dbReady
    /\ \E i \in 1..Len(screen.listings) : screen.listings[i].id = listingId
    /\ screen' = [screen EXCEPT !.alert = "Failed to delete listing"]
    /\ last' = Failed("deleteListing", listingId, Rethrow(thrown), thrown)
    /\ UNCHANGED <<db, schema, listings, saved_listings, seq, env, clock,
                   dbReady, error, tasks>>

----------------------------------------------------------------------------
(* createListing, for the ids the runs are bounded to *)
Create(inputs, maxId) ==
    \E i \in inputs :
      /\ seq.listings < maxId
      /\ createListing(i.creatorRoleId, i.sitterType, i.location,
                       i.startDate, i.endDate, i.description)

(* Calls one after the other: every call that writes *)
CreateOwn == Create({i \in CreateInputs :
                       i.creatorRoleId = MOCK_REQUESTER_ROLE_ID}, MaxCreateId)

Next ==
    \/ Restart
    \/ initDatabase
    \/ CreateOwn
    \/ \E id \in ListingIdArgs, u \in UpdateInputs :
         updateListing(id, u.sitterType, u.location, u.startDate, u.endDate,
                       u.description)
    \/ \E id \in ListingIdArgs : deleteListing(id)
    \/ \E p \in SavedPairs : saveListingForSitter(p[1], p[2])
    \/ \E p \in SavedPairs : unsaveListingForSitter(p[1], p[2])

Spec == Init /\ [][Next]_vars

(* Calls one after the other: the bookmarks and the reads of them *)
NextBookmarks ==
    \/ initDatabase
    \/ \E p \in BookmarkPairs : saveListingForSitter(p[1], p[2])
    \/ \E p \in BookmarkPairs : unsaveListingForSitter(p[1], p[2])
    \/ \E id \in ListingIdArgs : deleteListing(id)
    \/ \E p \in BookmarkPairs : isListingSaved(p[1], p[2])
    \/ \E s \in RoleIds : getSavedListingsForSitter(s)

SpecBookmarks == Init /\ [][NextBookmarks]_vars

(* Calls one after the other: launches, seeding, and deleting any listing *)
CreateAny == Create(CreateInputs, MaxCreateId)

NextSeed ==
    \/ Restart
    \/ initDatabase
    \/ CreateAny
    \/ \E id \in DeleteIdArgs : deleteListing(id)

SpecSeed == Init /\ [][NextSeed]_vars

(* Calls one after the other: the listings and the reads of them *)
CreateMore == Create(CreateInputs, MaxQueryCreateId)

NextQuery ==
    \/ initDatabase
    \/ CreateMore
    \/ \E id \in ListingIdArgs, u \in UpdateInputs :
         updateListing(id, u.sitterType, u.location, u.startDate, u.endDate,
                       u.description)
    \/ \E id \in ListingIdArgs : deleteListing(id)
    \/ getAllListings
    \/ \E c \in RoleIds : getListingsByCreator(c)
    \/ \E id \in QueryIdArgs : getListingById(id)
    \/ \E t \in FilterArgs : filterListingsByType(t)

SpecQuery == Init /\ [][NextQuery]_vars

(* saveListingForSitter calls that overlap, with unsave and delete between *)
NextRace ==
    \/ initDatabase
    \/ \E t \in 1..MaxTasks, p \in RacePairs : SaveStart(t, p[1], p[2])
    \/ \E t \in 1..MaxTasks : SaveCheck(t)
    \/ \E t \in 1..MaxTasks : SaveInsert(t)
    \/ \E p \in RacePairs : unsaveListingForSitter(p[1], p[2])
    \/ \E p \in RacePairs : deleteListing(p[1])

SpecRace == Init /\ [][NextRace]_vars

(* The app from launch to launch, with store calls that fail *)
NextApp ==
    \/ Mount
    \/ Restart
    \/ \E t \in 1..MaxTasks : OpenCheck(t)
    \/ \E t \in 1..MaxTasks : Opened(t)
    \/ \E t \in 1..MaxTasks : ExecListings(t)
    \/ \E t \in 1..MaxTasks : ExecSaved(t)
    \/ \E t \in 1..MaxTasks : CountRows(t)
    \/ \E t \in 1..MaxTasks : SeedInsert(t)
    \/ \E t \in 1..MaxTasks, e \in Errors : StatementFails(t, e)
    \/ \E id \in ListingIdArgs : getListingById(id)
    \/ \E id \in ListingIdArgs : deleteListing(id)
    \/ \E p \in AppPairs : saveListingForSitter(p[1], p[2])
    \/ \E c \in FailingCalls, e \in Errors : OpFails(c[1], c[2], e)

SpecApp == Init /\ [][NextApp]_vars

(* Calls of getDatabase that overlap each other and the launch *)
NextOpen ==
    \/ Mount
    \/ \E t \in 1..MaxTasks : GetDatabaseStart(t)
    \/ \E t \in 1..MaxTasks : OpenCheck(t)
    \/ \E t \in 1..MaxTasks : Opened(t)
    \/ \E t \in 1..MaxTasks : ExecListings(t)
    \/ \E t \in 1..MaxTasks : ExecSaved(t)
    \/ \E t \in 1..MaxTasks : CountRows(t)
    \/ \E t \in 1..MaxTasks : SeedInsert(t)

SpecOpen == Init /\ [][NextOpen]_vars

(* Calls of initDatabase that overlap the one of the launch *)
NextInit ==
    \/ Mount
    \/ \E t \in 1..MaxTasks : InitDatabaseStart(t)
    \/ \E t \in 1..MaxTasks : OpenCheck(t)
    \/ \E t \in 1..MaxTasks : Opened(t)
    \/ \E t \in 1..MaxTasks : ExecListings(t)
    \/ \E t \in 1..MaxTasks : ExecSaved(t)
    \/ \E t \in 1..MaxTasks : CountRows(t)
    \/ \E t \in 1..MaxTasks : SeedInsert(t)

SpecInit == Init /\ [][NextInit]_vars

(* MyListingsScreen: loads and deletes that overlap *)
NextReload ==
    \/ initDatabase
    \/ \E t \in 1..MaxTasks : LoadStart(t)
    \/ \E t \in 1..MaxTasks : LoadSelect(t)
    \/ \E t \in 1..MaxTasks : LoadResolve(t)
    \/ \E t \in 1..MaxTasks, id \in ScreenIdArgs : ConfirmDelete(t, id)

SpecReload == Init /\ [][NextReload]_vars

(* MyListingsScreen: the same, with store calls that fail *)
NextScreen ==
    \/ NextReload
    \/ \E t \in 1..MaxTasks, e \in Errors : LoadFails(t, e)
    \/ \E id \in ScreenIdArgs, e \in Errors : ConfirmDeleteFails(id, e)

\* the next step of the load of task t, taken when the store answers
LoadStep(t) ==
    LoadSelect(t) \/ LoadResolve(t) \/ \E e \in Errors : LoadFails(t, e)

SpecScreen == Init /\ [][NextScreen]_vars

----------------------------------------------------------------------------
(* Properties *)

IdsOf(rows) == {l.id : l \in rows}

PairRows(savedRows, listingId, sitterRoleId) ==
    {s \in savedRows : s.listingId = listingId
                       /\ s.sitterRoleId = sitterRoleId}

\* C1: initDatabase on a store without listings leaves exactly the 5 sample
\* rows, and on a store that holds a listing it inserts nothing, so a second
\* call in sequence leaves the table as the first one left it.
C1_InitIdempotent ==
    [][last'.op = "initDatabase" =>
         /\ listings = {} => Cardinality(listings') = 5
         /\ listings # {} => listings' = listings /\ seq' = seq
         /\ last.op = "initDatabase" => listings' = listings]_vars

\* initDatabase has run on a store that had lost some of its sample rows,
\* and left it with fewer than 5
C1_Witness ==
    /\ last.op = "initDatabase"
    /\ Cardinality(listings) \in 1..4
    /\ seq.listings = 5

\* C2: the sample listings are inserted by one initDatabase call only: once
\* a listing has ever been inserted, no initDatabase call inserts listings.
C2_SeedsOnce ==
    [][(last'.op = "initDatabase" /\ seq.listings > 0) =>
          listings' = listings]_vars

\* C3: after deleteListing(id) of a listing of the store, that listing and
\* the saved_listings rows with that listingId are gone, no read returns
\* them, and every other row is as it was.
C3_DeleteCascades ==
    [][(last'.op = "deleteListing" /\ last'.err = "none"
        /\ last'.arg \in IdsOf(listings)) =>
         LET id == last'.arg IN
         /\ listings' = {l \in listings : l.id # id}
         /\ saved_listings' = {s \in saved_listings : s.listingId # id}
         /\ \A reverse \in BOOLEAN :
              /\ id \notin IdsOf(Range(SelectAllListings(listings', reverse)))
              /\ \A s \in RoleIds :
                   id \notin IdsOf(Range(SelectSavedListingsForSitter(
                                 listings', saved_listings', s, reverse)))]_vars

\* C4: calls that do not overlap leave at most one saved_listings row per
\* (listingId, sitterRoleId); a second saveListingForSitter of a pair on a
\* listing of the store changes nothing and leaves exactly one row.
C4_OneRowPerPair ==
    /\ [](\A a \in saved_listings, b \in saved_listings :
            (a.listingId = b.listingId /\ a.sitterRoleId = b.sitterRoleId)
               => a = b)
    /\ [][(/\ last'.op = "saveListingForSitter" /\ last'.err = "none"
           /\ last'.arg[1] \in IdsOf(listings)) =>
            /\ Cardinality(PairRows(saved_listings', last'.arg[1],
                                    last'.arg[2])) = 1
            /\ PairRows(saved_listings, last'.arg[1], last'.arg[2]) # {}
                 => saved_listings' = saved_listings /\ seq' = seq]_vars

\* saveListingForSitter has returned for a pair of a listing of the store
\* whose one row is older than the newest row: this call inserted nothing
C4_Witness ==
    /\ last.op = "saveListingForSitter"
    /\ last.err = "none"
    /\ last.arg[1] \in IdsOf(listings)
    /\ \E s \in PairRows(saved_listings, last.arg[1], last.arg[2]) :
         s.id < seq.saved_listings

\* C5: the INSERT of saveListingForSitter runs on what the earlier check
\* found: it adds a row for the pair whatever the table holds by then, so
\* when the checks of two calls for one pair both run before either INSERT,
\* the pair gets two rows.
C5_InsertAfterStaleCheck ==
    [][\A t \in 1..MaxTasks :
         (SaveInsert(t) /\ last'.err = "none") =>
            /\ Cardinality(PairRows(saved_listings', tasks[t].listingId,
                                    tasks[t].sitterRoleId))
               = Cardinality(PairRows(saved_listings, tasks[t].listingId,
                                      tasks[t].sitterRoleId)) + 1
            /\ \A u \in 1..MaxTasks \ {t} :
                 (/\ tasks[u].pc = "insert"
                  /\ tasks[u].listingId = tasks[t].listingId
                  /\ tasks[u].sitterRoleId = tasks[t].sitterRoleId)
                 => /\ tasks'[u] = tasks[u]
                    /\ PairRows(saved_listings', tasks[t].listingId,
                                tasks[t].sitterRoleId) # {}]_vars

\* two rows for one pair, both calls having returned
C5_Witness ==
    /\ \A t \in 1..MaxTasks : tasks[t].pc = "idle"
    /\ \E a \in saved_listings, b \in saved_listings :
         /\ a # b
         /\ a.listingId = b.listingId
         /\ a.sitterRoleId = b.sitterRoleId

\* C6: getListingById(createListing(...)) right after the createListing
\* returns the row with the six inputs, the id createListing returned and a
\* createdAt.
C6_CreateThenGet ==
    [][(/\ last.op = "createListing" /\ last.err = "none"
        /\ last'.op = "getListingById" /\ last'.arg = last.result) =>
         /\ last'.err = "none"
         /\ last'.result # NULL
         /\ last'.result.id = last.result
         /\ last'.result.creatorRoleId = last.arg.creatorRoleId
         /\ last'.result.sitterType = last.arg.sitterType
         /\ last'.result.location = last.arg.location
         /\ last'.result.startDate = last.arg.startDate
         /\ last'.result.endDate = last.arg.endDate
         /\ last'.result.description = last.arg.description
         /\ Len(last'.result.createdAt) > 0]_vars

\* getListingById has returned a listing that createListing made
C6_Witness ==
    /\ last.op = "getListingById"
    /\ last.result # NULL
    /\ last.result.id > Len(sampleListings)
    /\ \E i \in CreateInputs : last.result.location = i.location

\* C7: filterListingsByType(pet) returns the listings of type pet or both,
\* (house) those of type house or both, (both) those of type both, and
\* ("all") the listings getAllListings returns, each once.
C7_FilterByType ==
    last.op = "filterListingsByType" =>
       /\ last.err = "none"
       /\ Len(last.result) = Cardinality(Range(last.result))
       /\ last.arg = PET =>
            Range(last.result) = {l \in listings : l.sitterType \in {PET, BOTH}}
       /\ last.arg = HOUSE =>
            Range(last.result) = {l \in listings : l.sitterType \in {HOUSE, BOTH}}
       /\ last.arg = BOTH =>
            Range(last.result) = {l \in listings : l.sitterType = BOTH}
       /\ last.arg = "all" =>
            /\ Range(last.result) = listings
            /\ \A reverse \in BOOLEAN :
                 Range(last.result) = Range(SelectAllListings(listings, reverse))

\* filterListingsByType(pet) has returned a pet and a both listing and left
\* a house listing out
C7_Witness ==
    /\ last.op = "filterListingsByType"
    /\ last.arg = PET
    /\ \E l \in Range(last.result) : l.sitterType = PET
    /\ \E l \in Range(last.result) : l.sitterType = BOTH
    /\ \E l \in listings : l.sitterType = HOUSE

NewestFirst(result) ==
    \A i \in 1..(Len(result) - 1) :
        ~TextLess(result[i].createdAt, result[i + 1].createdAt)

\* C8: getAllListings returns every listing once and
\* getListingsByCreator(c) the listings of creator c, both newest first.
C8_NewestFirst ==
    /\ last.op = "getAllListings" =>
         /\ Range(last.result) = listings
         /\ Len(last.result) = Cardinality(listings)
         /\ NewestFirst(last.result)
    /\ last.op = "getListingsByCreator" =>
         /\ Range(last.result) = {l \in listings : l.creatorRoleId = last.arg}
         /\ Len(last.result) = Cardinality(Range(last.result))
         /\ NewestFirst(last.result)

\* getListingsByCreator has returned listings of two ages and left a
\* listing of another creator out
C8_Witness ==
    /\ last.op = "getListingsByCreator"
    /\ Len(last.result) >= 2
    /\ last.result[1].createdAt # last.result[Len(last.result)].createdAt
    /\ \E l \in listings : l.creatorRoleId # last.arg

\* C9: updateListing with an id of no listing returns without error and
\* leaves every table as it was.
C9_UpdateAbsent ==
    [][(last'.op = "updateListing" /\ last'.arg.id \notin IdsOf(listings)) =>
         /\ last'.err = "none"
         /\ store' = store]_vars

\* updateListing has returned for an id of no listing, on a store that
\* holds listings
C9_Witness ==
    /\ last.op = "updateListing"
    /\ last.err = "none"
    /\ last.arg.id \notin IdsOf(listings)
    /\ listings # {}

\* C10: unsaveListingForSitter returns without error, removes the rows of
\* its pair and no other row; for a pair without rows it changes nothing.
C10_UnsaveFrame ==
    [][last'.op = "unsaveListingForSitter" =>
         /\ last'.err = "none"
         /\ listings' = listings
         /\ schema' = schema /\ seq' = seq
         /\ saved_listings' =
              saved_listings \ PairRows(saved_listings, last'.arg[1],
                                        last'.arg[2])
         /\ PairRows(saved_listings, last'.arg[1], last'.arg[2]) = {}
              => saved_listings' = saved_listings]_vars

\* unsaveListingForSitter has returned and another sitter's row for the
\* same listing is still there
C10_Witness ==
    /\ last.op = "unsaveListingForSitter"
    /\ last.err = "none"
    /\ PairRows(saved_listings, last.arg[1], last.arg[2]) = {}
    /\ \E s \in saved_listings : s.listingId = last.arg[1]

\* C11: updateListing of a listing of the store sets the five fields of the
\* row with that id to the values given, and leaves that row's id,
\* creatorRoleId and createdAt, every other listings row and every
\* saved_listings row as they were; no step changes the creatorRoleId or
\* the createdAt of a row that stays in the table.
C11_UpdateFrame ==
    /\ [][(last'.op = "updateListing" /\ last'.arg.id \in IdsOf(listings)) =>
            LET a == last'.arg IN
            /\ last'.err = "none"
            /\ saved_listings' = saved_listings
            /\ schema' = schema /\ seq' = seq
            /\ IdsOf(listings') = IdsOf(listings)
            /\ Cardinality(listings') = Cardinality(listings)
            /\ \A l \in listings : l.id # a.id => l \in listings'
            /\ \A l \in listings : l.id = a.id =>
                 Listing(l.id, l.creatorRoleId, a.sitterType, a.location,
                         a.startDate, a.endDate, a.description, l.createdAt)
                   \in listings']_vars
    /\ [][\A l \in listings, m \in listings' :
            m.id = l.id => /\ m.creatorRoleId = l.creatorRoleId
                           /\ m.createdAt = l.createdAt]_vars

\* updateListing has changed a sample listing while another listing and a
\* saved_listings row are in the store
C11_Witness ==
    /\ last.op = "updateListing"
    /\ last.err = "none"
    /\ \E l \in listings : /\ l.id = last.arg.id
                           /\ l.location = last.arg.location
    /\ \E l \in listings : l.id # last.arg.id
    /\ saved_listings # {}

\* C12: getListingById with an id of no listing, never given or deleted,
\* returns null and does not throw, unless its statement throws; it throws
\* nothing but what its statement threw.
C12_GetAbsent ==
    /\ [][(/\ last'.op = "getListingById"
           /\ "thrown" \notin DOMAIN last'
           /\ last'.arg \notin IdsOf(listings)) =>
            /\ last'.err = "none"
            /\ last'.result = NULL]_vars
    /\ [](last.op = "getListingById" =>
            \/ last.err = "none"
            \/ /\ "thrown" \in DOMAIN last
               /\ last.thrown \in Errors
               /\ last.err = last.thrown)

\* getListingById has returned null for the id of a deleted listing
C12_Witness ==
    /\ last.op = "getListingById"
    /\ last.err = "none"
    /\ last.result = NULL
    /\ last.arg <= seq.listings
    /\ listings # {}

\* C13: when the open or a statement of a call throws, the call throws that
\* same value, the statement has changed nothing, and the call is over: it
\* issues no further statement and does not run the statement again. A
\* constraint failure ends the call in the same way.
C13_FailurePropagates ==
    [][(last' # last /\ last'.err # "none") =>
         /\ store' = store
         /\ db' = db
         /\ \A t \in 1..MaxTasks : tasks'[t] = Idle
         /\ "thrown" \in DOMAIN last' =>
              /\ last'.thrown \in Errors
              /\ last'.err = last'.thrown
         /\ last'.op = "initDatabase" =>
              /\ tasks[SetupTask].pc # "idle"
              /\ ~dbReady']_vars

\* initDatabase has thrown what its third INSERT threw
C13_Witness ==
    /\ last.op = "initDatabase"
    /\ last.err \in Errors
    /\ Cardinality(listings) = 2
    /\ seq.listings = 2
    /\ \A t \in 1..MaxTasks : tasks[t] = Idle

\* C14: a call that throws leaves the rows of both tables as they were when
\* it began.
C14_FailureAtomic ==
    [][(last' # last /\ last'.err # "none") =>
         \A t \in 1..MaxTasks :
            IF tasks[t].pc = "idle"
            THEN tableRows' = tableRows
            ELSE tableRows' = tasks[t].before]_vars

\* C15: the process opens the database at most once, and every call of
\* getDatabase or initDatabase gets that one handle, however the calls
\* overlap.
C15_SingleConnection ==
    /\ db # NULL => db.n = 1
    /\ \A t \in 1..MaxTasks :
         (tasks[t].pc \in {"listings", "saved_listings", "count", "seed"})
            => tasks[t].database = db
    /\ (last.op = "getDatabase" /\ last.err = "none") => last.result = db

\* C16: App shows the navigator only after initDatabase has returned; when
\* initDatabase throws, error is set, and from then on dbReady stays false
\* and the navigator is not shown; dbReady and error are never both set; on
\* the web initDatabase is not called.
C16_StartUp ==
    /\ [](Screen = "navigator" => dbReady /\ error = NULL)
    /\ [](~(dbReady /\ error # NULL))
    /\ [][(dbReady' /\ ~dbReady) =>
            /\ last'.op = "initDatabase"
            /\ last'.err = "none"
            /\ tasks[SetupTask].pc \in {"count", "seed"}]_vars
    /\ [][(last'.op = "initDatabase" /\ last'.err # "none") =>
            /\ error' # NULL
            /\ ~dbReady'
            /\ Screen' = "error"]_vars
    /\ [][(error # NULL /\ last'.op # "launch") =>
            /\ error' = error
            /\ ~dbReady'
            /\ Screen' # "navigator"]_vars
    /\ [](platform = "web" =>
            /\ \A t \in 1..MaxTasks : tasks[t].pc = "idle"
            /\ last.op # "initDatabase"
            /\ db = NULL /\ schema = {} /\ ~dbReady
            /\ Screen \in {"loading", "web"})

\* initDatabase has thrown in this launch, after a launch in which it
\* returned: App shows the error screen over a store that has its tables
C16_Witness ==
    /\ Screen = "error"
    /\ last.op = "initDatabase"
    /\ last.err \in Errors
    /\ ~dbReady
    /\ schema = {"listings", "saved_listings"}
    /\ Cardinality(listings) = 5

\* C17: getSavedListingsForSitter(s) returns one listings row per
\* saved_listings row of sitter s whose listing is in the store, no row for
\* another sitter's bookmark or for a bookmark without its listing, in the
\* order of savedAt, newest first.
C17_SavedForSitter ==
    last.op = "getSavedListingsForSitter" =>
       LET bookmarks == {sl \in saved_listings :
                           /\ sl.sitterRoleId = last.arg
                           /\ sl.listingId \in IdsOf(listings)}
       IN  /\ last.err = "none"
           /\ Len(last.result) = Cardinality(bookmarks)
           /\ Range(last.result) =
                {l \in listings : \E sl \in bookmarks : sl.listingId = l.id}
           /\ \A i \in 1..Len(last.result), j \in 1..Len(last.result) :
                i < j =>
                  \E a \in bookmarks, b \in bookmarks :
                     /\ a # b
                     /\ a.listingId = last.result[i].id
                     /\ b.listingId = last.result[j].id
                     /\ ~TextLess(a.savedAt, b.savedAt)

\* getSavedListingsForSitter has returned two listings whose bookmarks are
\* of two ages
C17_Witness ==
    /\ last.op = "getSavedListingsForSitter"
    /\ Len(last.result) = 2
    /\ \E a \in saved_listings, b \in saved_listings :
         /\ a.sitterRoleId = last.arg /\ b.sitterRoleId = last.arg
         /\ TextLess(a.savedAt, b.savedAt)

\* C18: isListingSaved returns true exactly when saved_listings holds a row
\* of the pair: true right after a saveListingForSitter of the pair that
\* returned, false right after unsaveListingForSitter of the pair, and false
\* right after deleteListing of the listing.
C18_IsSaved ==
    /\ [](last.op = "isListingSaved" =>
            /\ last.err = "none"
            /\ last.result = (PairRows(saved_listings, last.arg[1],
                                       last.arg[2]) # {}))
    /\ [][(/\ last.op = "saveListingForSitter" /\ last.err = "none"
           /\ last'.op = "isListingSaved" /\ last'.arg = last.arg)
            => last'.result = TRUE]_vars
    /\ [][(/\ last.op = "unsaveListingForSitter" /\ last.err = "none"
           /\ last'.op = "isListingSaved" /\ last'.arg = last.arg)
            => last'.result = FALSE]_vars
    /\ [][(/\ last.op = "deleteListing" /\ last.err = "none"
           /\ last'.op = "isListingSaved" /\ last'.arg[1] = last.arg)
            => last'.result = FALSE]_vars

\* C19: every saved_listings row has the id of a listing of the store as its
\* listingId.
C19_ReferentialIntegrity ==
    \A s \in saved_listings : s.listingId \in IdsOf(listings)

\* C20: no two listings rows share an id, and every id that createListing
\* or the seeding gives is larger than every id the table has given before,
\* the ids of deleted rows included.
C20_IdsNeverReused ==
    /\ [](\A a \in listings, b \in listings : a.id = b.id => a = b)
    /\ [](\A l \in listings : l.id <= seq.listings)
    /\ [][/\ seq'.listings >= seq.listings
          /\ \A m \in listings' :
               m.id \notin IdsOf(listings) => m.id > seq.listings
          /\ (last'.op = "createListing" /\ last'.err = "none") =>
               /\ last'.result > seq.listings
               /\ last'.result \in IdsOf(listings')]_vars

\* createListing has returned after the listing with the largest id was
\* deleted
C20_Witness ==
    /\ last.op = "createListing"
    /\ last.result \in IdsOf(listings)
    /\ (last.result - 1) \notin IdsOf(listings)
    /\ Cardinality(listings) >= 2

\* C22: when initDatabase returns on a store where no listing was ever
\* created by createListing or deleted, the listings table holds the five
\* sample listings and nothing else, also when an earlier initDatabase on
\* that store threw part-way through the seeding.
C22_FiveAfterInit ==
    (/\ last.op = "initDatabase" /\ last.err = "none"
     /\ Cardinality(listings) = seq.listings
     /\ \A l \in listings : l.id <= Len(sampleListings))
      => /\ Cardinality(listings) = Len(sampleListings)
         /\ \A i \in 1..Len(sampleListings) :
              \E l \in listings : /\ l.id = i
                                  /\ l.location = sampleListings[i].location

\* C23: once initDatabase calls that overlapped on an empty store have all
\* returned, the listings table holds 5 rows.
C23_NoDuplicateSeeds ==
    (/\ \A t \in 1..MaxTasks : tasks[t].pc = "idle"
     /\ last.op = "initDatabase" /\ last.err = "none")
      => Cardinality(listings) = Len(sampleListings)

\* awaits that a load at pc has before it
AwaitsLeft(pc) ==
    IF pc = "getListingsByCreator" THEN 2 ELSE IF pc = "setListings" THEN 1
    ELSE 0

\* C21: in MyListingsScreen a load in flight can always take its next step
\* and each step brings it nearer its end, and when it ends, with the rows
\* or with an error, loading is false; when getListingsByCreator throws, the
\* load alert is shown, the list on display stays and no load is started;
\* when deleteListing throws, the delete alert is shown, the list on display
\* and the store stay, and no load is started.
C21_ViewSettles ==
    /\ [](\A t \in 1..MaxTasks :
            tasks[t].pc # "idle" => ENABLED LoadStep(t))
    /\ [][\A t \in 1..MaxTasks :
            (tasks[t].pc # "idle" /\ tasks'[t] # tasks[t])
               => AwaitsLeft(tasks'[t].pc) < AwaitsLeft(tasks[t].pc)]_vars
    /\ [][\A t \in 1..MaxTasks :
            (tasks[t].pc # "idle" /\ tasks'[t].pc = "idle")
               => ~screen'.loading]_vars
    /\ [][\A t \in 1..MaxTasks :
            (tasks[t].pc = "getListingsByCreator" /\ tasks'[t].pc = "idle") =>
               /\ last'.err \in Errors
               /\ screen'.alert = "Failed to load listings"
               /\ screen'.listings = screen.listings
               /\ store' = store
               /\ \A u \in 1..MaxTasks \ {t} : tasks'[u] = tasks[u]]_vars
    /\ [][(/\ last' # last
           /\ last'.op = "deleteListing" /\ last'.err # "none") =>
            /\ screen'.alert = "Failed to delete listing"
            /\ screen'.listings = screen.listings
            /\ screen'.loading = screen.loading
            /\ store' = store
            /\ tasks' = tasks]_vars

\* a load has ended with an error while another load is in flight: the
\* listings of an earlier load are still on display
C21_Witness ==
    /\ last.op = "getListingsByCreator"
    /\ last.err \in Errors
    /\ screen.alert = "Failed to load listings"
    /\ ~screen.loading
    /\ Len(screen.listings) = Len(sampleListings)
    /\ \E t \in 1..MaxTasks : tasks[t].pc = "setListings"

\* C24: once a delete from MyListingsScreen has succeeded and no load is in
\* flight, the list on display is what getListingsByCreator(1) gives on the
\* store, so the deleted listing is not in it.
C24_ReloadShowsStore ==
    (/\ \A t \in 1..MaxTasks : tasks[t].pc = "idle"
     /\ Cardinality(listings) < seq.listings)
      => /\ Len(screen.listings) =
              Cardinality({l \in listings :
                             l.creatorRoleId = MOCK_REQUESTER_ROLE_ID})
         /\ Range(screen.listings) =
              {l \in listings : l.creatorRoleId = MOCK_REQUESTER_ROLE_ID}

====
